---- MODULE Spec2Model ----
(***************************************************************************)
(* Model of the wallet-key core of src/server.py (CronCoin dashboard):     *)
(* Base58/Base58Check, BIP-32 path parsing and child derivation, BIP-39    *)
(* mnemonic generation, extended-key serialization, the HD synthesis       *)
(* orchestrator _full_hd_generate, the path re-derivation                  *)
(* derive_privkey_wif, the POST /api/wallet/generate handler, Bech32       *)
(* P2WPKH addresses and the memoized master key of _get_master_tprv.       *)
(*                                                                         *)
(* Representation.                                                         *)
(*   bytes   : sequences of integers 0..255                                *)
(*   str     : sequences of one-character strings                          *)
(*   int     : Python's unbounded integers are TLA+ integers where they    *)
(*             stay small, and big-endian byte sequences without leading   *)
(*             zero bytes (a "magnitude") inside Base58, where they do not *)
(*   raise   : a function that can raise returns Ok(v) or Err(kind)        *)
(*                                                                         *)
(* Scaling.  The model checker's integers are 32-bit, so the 256-bit       *)
(* scalars and the 32-bit derivation indices are scaled down, every width  *)
(* by a named definition: keys and chain codes are KeyLen = 1 byte (32 in  *)
(* the source), a derivation index is IndexLen = 1 byte (4), so the        *)
(* hardened offset is 2^7 (2^31), a parent fingerprint is FpLen = 1 byte   *)
(* (4), and secp256k1 is replaced by the curve y^2 = x^3 + 7 over F_211,   *)
(* which has prime order 199.  The hash functions of hashlib/hmac are      *)
(* library code; they are replaced by a fixed deterministic mixing         *)
(* function with the same interface (Digest).                              *)
(***************************************************************************)
EXTENDS Integers, Sequences, FiniteSets, TLC

\* call, result : the call in progress and what it returned
\* _cache       : the attribute _get_master_tprv._cache
\* _rpc_id      : the number of JSON-RPC calls made so far
\* daemon       : what croncoind answers to listdescriptors at present
VARIABLES call, result, _cache, _rpc_id, daemon

vars == <<call, result, _cache, _rpc_id, daemon>>

\* the state outside the calls of the key functions
wallet_vars == <<_cache, _rpc_id, daemon>>

\* ------------------------------------------------------------------------
\* Python helpers

\* F of the value of v.  A local variable that is assigned once and read
\* several times is bound by With: v is evaluated once, whereas the model
\* checker may evaluate a LET definition or an operator argument anew at
\* every use.
With(v, F(_)) == CHOOSE y \in { F(x) : x \in {v} } : TRUE

Ok(v) == [ok |-> TRUE, val |-> v]
Err(kind) == [ok |-> FALSE, err |-> kind]

\* data[a:b] with 0 <= a, Python's clamping of the end
Slice(s, a, b) ==
    IF a >= b \/ a >= Len(s) THEN <<>>
    ELSE SubSeq(s, a + 1, IF b > Len(s) THEN Len(s) ELSE b)

\* data[:-k] and data[-k:]
DropLast(s, k) == IF Len(s) <= k THEN <<>> ELSE SubSeq(s, 1, Len(s) - k)
TakeLast(s, k) == IF Len(s) <= k THEN s ELSE SubSeq(s, Len(s) - k + 1, Len(s))

\* reversed(s)
Reverse(s) == [i \in 1..Len(s) |-> s[Len(s) + 1 - i]]

Min(S) == CHOOSE m \in S : \A x \in S : m <= x

\* bytes(n): n zero bytes;  "1" * n
Repeat(x, n) == [i \in 1..n |-> x]

\* the number of leading elements of s that are in X
LeadingIn(s, X) ==
    With({i \in 1..Len(s) : s[i] \notin X},
         LAMBDA others : IF others = {} THEN Len(s) ELSE Min(others) - 1)

\* the number of leading elements of s equal to x (the pad loops)
CountLeading(s, x) == LeadingIn(s, {x})

\* pow(b, e, m)
RECURSIVE ModPow(_, _, _)
ModPow(b, e, m) ==
    IF e = 0 THEN 1 % m
    ELSE With(ModPow(b, e \div 2, m),
              LAMBDA h : IF e % 2 = 1 THEN (((h * h) % m) * (b % m)) % m ELSE (h * h) % m)

\* ------------------------------------------------------------------------
\* Unbounded integers as magnitudes (big-endian bytes, no leading zero)

\* s without its leading zeros
StripZeros(s) == SubSeq(s, CountLeading(s, 0) + 1, Len(s))

\* int.from_bytes(data, "big")
IntFromBytes(data) == StripZeros(data)

\* divmod(n, d) for a magnitude n and 0 < d < 2^16, from byte i on, with the
\* quotient bytes q and the remainder r so far: <<quotient, remainder>>
RECURSIVE DivModStep(_, _, _, _, _)
DivModStep(n, d, i, q, r) ==
    IF i > Len(n) THEN <<StripZeros(q), r>>
    ELSE With(r * 256 + n[i],
              LAMBDA cur : With(<<Append(q, cur \div d), cur % d>>,
                                LAMBDA st : DivModStep(n, d, i + 1, st[1], st[2])))

DivMod(n, d) == With(n, LAMBDA v : DivModStep(v, d, 1, <<>>, 0))

\* n * m + a for a magnitude n, 0 < m < 2^16 and 0 <= a < m, from byte i
\* down, with the carry and the low bytes acc so far
RECURSIVE MulAddStep(_, _, _, _, _)
MulAddStep(n, m, i, carry, acc) ==
    IF i = 0
    THEN IF carry = 0 THEN acc ELSE <<carry>> \o acc
    ELSE With(n[i] * m + carry,
              LAMBDA v : With(<<v \div 256, <<v % 256>> \o acc>>,
                              LAMBDA st : MulAddStep(n, m, i - 1, st[1], st[2])))

MulAdd(n, m, a) == With(n, LAMBDA v : StripZeros(MulAddStep(v, m, Len(v), a, <<>>)))

\* ------------------------------------------------------------------------
\* Base58

_B58_ALPHABET ==
    << "1","2","3","4","5","6","7","8","9",
       "A","B","C","D","E","F","G","H","J","K","L","M","N","P","Q","R","S",
       "T","U","V","W","X","Y","Z",
       "a","b","c","d","e","f","g","h","i","j","k","m","n","o","p","q","r",
       "s","t","u","v","w","x","y","z" >>

\* _B58_ALPHABET.index(c): the 0-based position, or -1 where Python raises
B58Index(c) ==
    IF \E i \in 1..58 : _B58_ALPHABET[i] = c
    THEN (CHOOSE i \in 1..58 : _B58_ALPHABET[i] = c) - 1
    ELSE -1

\* the while loop of _b58encode: the digits of the magnitude n appended to
\* res, least significant first
RECURSIVE B58Digits(_, _)
B58Digits(n, res) ==
    IF n = <<>> THEN res
    ELSE With(DivMod(n, 58),
              LAMBDA qr : With(Append(res, _B58_ALPHABET[qr[2] + 1]),
                               LAMBDA res2 : B58Digits(qr[1], res2)))

_b58encode(data) ==
    With(data, LAMBDA d :
    With(IntFromBytes(d), LAMBDA n :
    With(B58Digits(n, <<>>), LAMBDA res :
         Repeat("1", CountLeading(d, 0)) \o Reverse(res))))

\* the first loop of _b58decode from character i on, n so far
RECURSIVE B58Accumulate(_, _, _)
B58Accumulate(s, i, n) ==
    IF i > Len(s) THEN n
    ELSE With(MulAdd(n, 58, B58Index(s[i])),
              LAMBDA n2 : B58Accumulate(s, i + 1, n2))

\* _b58decode counting every "1" of the string as a zero byte
_b58decode_every_one(s) ==
    With(s, LAMBDA str :
        IF \E i \in 1..Len(str) : B58Index(str[i]) < 0 THEN Err("ValueError")
        ELSE Ok(Repeat(0, Cardinality({i \in 1..Len(str) : str[i] = "1"}))
                \o B58Accumulate(str, 1, <<>>)))

_b58decode(s) ==
    With(s, LAMBDA str :
        IF \E i \in 1..Len(str) : B58Index(str[i]) < 0 THEN Err("ValueError")
        ELSE Ok(Repeat(0, CountLeading(str, "1")) \o B58Accumulate(str, 1, <<>>)))

\* ------------------------------------------------------------------------
\* hashlib / hmac (library code): a fixed deterministic stand-in.  A digest
\* absorbs its input into a 15-bit state, every byte weighted by its
\* position, and squeezes the requested number of bytes out of it.

\* the sum over msg[lo..hi] of (msg[i] + 1) * (31 i^2 + 7 i + 1), modulo 32749
RECURSIVE Absorb(_, _, _)
Absorb(msg, lo, hi) ==
    IF lo > hi THEN 0
    ELSE IF lo = hi THEN ((msg[lo] + 1) * ((31 * lo * lo + 7 * lo + 1) % 32749)) % 32749
    ELSE (Absorb(msg, lo, (lo + hi) \div 2) + Absorb(msg, (lo + hi) \div 2 + 1, hi)) % 32749

Digest(tag, msg, n) ==
    With(msg, LAMBDA m :
    With((tag * 257 + Len(m) + Absorb(m, 1, Len(m))) % 32749, LAMBDA st :
         [i \in 1..n |-> (((st + i * 7) * 251) % 32749) % 256]))

Sha256Len == 32
CksumLen == 4

\* hashlib.sha256(data).digest()
sha256(data) == Digest(1, data, Sha256Len)

\* hashlib.sha256(hashlib.sha256(payload).digest()).digest()[:4]
Checksum(payload) == Slice(sha256(sha256(payload)), 0, CksumLen)

\* ------------------------------------------------------------------------
\* Base58Check

\* _b58decode_check without the comparison of the checksum
_b58decode_check_unverified(s) ==
    With(_b58decode(s), LAMBDA d : IF ~d.ok THEN d ELSE Ok(DropLast(d.val, CksumLen)))

_b58decode_check(s) ==
    With(_b58decode(s), LAMBDA d :
        IF ~d.ok THEN d
        ELSE With(DropLast(d.val, CksumLen), LAMBDA payload :
                 IF TakeLast(d.val, CksumLen) # Checksum(payload)
                 THEN Err("ValueError")
                 ELSE Ok(payload)))

_b58encode_check(payload) ==
    With(payload, LAMBDA p : With(p \o Checksum(p), LAMBDA data : _b58encode(data)))

\* ------------------------------------------------------------------------
\* str methods and int()

Whitespace == {" "}
Digits == <<"0", "1", "2", "3", "4", "5", "6", "7", "8", "9">>
IsDigit(c) == \E i \in 1..10 : Digits[i] = c
DigitVal(c) == (CHOOSE i \in 1..10 : Digits[i] = c) - 1

LStrip(s) == SubSeq(s, LeadingIn(s, Whitespace) + 1, Len(s))

\* s.strip()
Strip(s) == With(s, LAMBDA v : Reverse(LStrip(Reverse(LStrip(v)))))

\* s.split(sep): never empty, "" splits to [""]
Split(s, sep) ==
    With(s, LAMBDA v :
    With(<<0>> \o SelectSeq([i \in 1..Len(v) |-> i], LAMBDA i : v[i] = sep)
              \o <<Len(v) + 1>>, LAMBDA cuts :
         [j \in 1..(Len(cuts) - 1) |-> SubSeq(v, cuts[j] + 1, cuts[j + 1] - 1)]))

\* sep.join(parts)
RECURSIVE Join(_, _)
Join(parts, sep) ==
    IF parts = <<>> THEN <<>>
    ELSE IF Len(parts) = 1 THEN parts[1]
    ELSE With(Join(Tail(parts), sep), LAMBDA rest : parts[1] \o <<sep>> \o rest)

EndsWith(s, c) == s # <<>> /\ s[Len(s)] = c

\* the decimal value of digits and underscores
RECURSIVE DecimalValue(_)
DecimalValue(s) ==
    IF s = <<>> THEN 0
    ELSE IF s[Len(s)] = "_" THEN DecimalValue(DropLast(s, 1))
    ELSE DecimalValue(DropLast(s, 1)) * 10 + DigitVal(s[Len(s)])

\* int(s) of a str: surrounding whitespace is dropped, one sign is allowed,
\* and single underscores may separate digits; anything else raises
PyInt(s) ==
    With(Strip(s), LAMBDA t :
    With(t # <<>> /\ t[1] \in {"+", "-"}, LAMBDA signed :
    With(IF signed THEN Tail(t) ELSE t, LAMBDA body :
         IF ~ /\ body # <<>>
              /\ IsDigit(body[1])
              /\ IsDigit(body[Len(body)])
              /\ \A i \in 1..Len(body) : IsDigit(body[i]) \/ body[i] = "_"
              /\ \A i \in 1..(Len(body) - 1) : ~(body[i] = "_" /\ body[i + 1] = "_")
         THEN Err("ValueError")
         ELSE IF signed /\ t[1] = "-"
              THEN Ok(0 - DecimalValue(body))
              ELSE Ok(DecimalValue(body)))))

\* ------------------------------------------------------------------------
\* Derivation paths

\* 0x80000000 scaled to a one-byte index
HARDENED == 128

\* SegmentIndex that knows "h" as the only hardened marker
SegmentIndexOnlyH(p) ==
    IF EndsWith(p, "h")
    THEN With(PyInt(DropLast(p, 1)),
              LAMBDA n : IF n.ok THEN Ok(n.val + HARDENED) ELSE n)
    ELSE PyInt(p)

\* one iteration of the loop of _parse_hdkeypath: the index of segment p
SegmentIndex(p) ==
    IF EndsWith(p, "h") \/ EndsWith(p, "'")
    THEN With(PyInt(DropLast(p, 1)),
              LAMBDA n : IF n.ok THEN Ok(n.val + HARDENED) ELSE n)
    ELSE PyInt(p)

_parse_hdkeypath(path_str) ==
    With(Split(Strip(path_str), "/"), LAMBDA split :
    With(IF split[1] = <<"m">> THEN Tail(split) ELSE split, LAMBDA parts :
    With([i \in 1..Len(parts) |-> SegmentIndex(parts[i])], LAMBDA idx :
         IF \E i \in 1..Len(parts) : ~idx[i].ok THEN Err("ValueError")
         ELSE Ok([i \in 1..Len(parts) |-> idx[i].val]))))

\* ------------------------------------------------------------------------
\* secp256k1, scaled: y^2 = x^3 + 7 over F_211, a group of prime order 199

_SECP256K1_P == 211
_SECP256K1_N == 199
_SECP256K1_Gx == 3
_SECP256K1_Gy == 33

\* the identity (Python's None)
None == <<>>

\* the slope lam of _ec_point_add
Lambda(x1, y1, x2, y2) ==
    IF x1 = x2
    THEN ((3 * x1 * x1) * ModPow(2 * y1, _SECP256K1_P - 2, _SECP256K1_P)) % _SECP256K1_P
    ELSE ((y2 - y1) * ModPow(x2 - x1, _SECP256K1_P - 2, _SECP256K1_P)) % _SECP256K1_P

_ec_point_add(p1, p2) ==
    IF p1 = None THEN p2
    ELSE IF p2 = None THEN p1
    ELSE IF p1[1] = p2[1] /\ p1[2] # p2[2] THEN None
    ELSE With(Lambda(p1[1], p1[2], p2[1], p2[2]), LAMBDA lam :
         With((lam * lam - p1[1] - p2[1]) % _SECP256K1_P, LAMBDA x3 :
              <<x3, (lam * (p1[1] - x3) - p1[2]) % _SECP256K1_P>>))

\* the loop of _ec_point_mul
RECURSIVE EcMulLoop(_, _, _)
EcMulLoop(k, res, addend) ==
    IF k = 0 THEN res
    ELSE With(<<IF k % 2 = 1 THEN _ec_point_add(res, addend) ELSE res,
                _ec_point_add(addend, addend)>>,
              LAMBDA st : EcMulLoop(k \div 2, st[1], st[2]))

_ec_point_mul(k, point) ==
    With(<<k, point>>, LAMBDA a : EcMulLoop(a[1], None, a[2]))

\* ------------------------------------------------------------------------
\* Fixed-width integers

\* 32-byte keys and chain codes, scaled
KeyLen == 1
\* 4-byte child numbers, scaled
IndexLen == 1
\* 4-byte parent fingerprints, scaled
FpLen == 1

RECURSIVE Pow256(_)
Pow256(n) == IF n = 0 THEN 1 ELSE 256 * Pow256(n - 1)

\* n.to_bytes(len, "big")
ToBytes(n, len) ==
    IF n < 0 \/ n >= Pow256(len) THEN Err("OverflowError")
    ELSE Ok([i \in 1..len |-> (n \div Pow256(len - i)) % 256])

\* int.from_bytes(b, "big") of at most three bytes
RECURSIVE SmallInt(_)
SmallInt(b) == IF b = <<>> THEN 0 ELSE SmallInt(DropLast(b, 1)) * 256 + b[Len(b)]

\* ------------------------------------------------------------------------
\* BIP-32

_privkey_to_compressed_pubkey(key_bytes) ==
    With(_ec_point_mul(SmallInt(key_bytes), <<_SECP256K1_Gx, _SECP256K1_Gy>>), LAMBDA pt :
        IF pt = None THEN Err("TypeError")
        ELSE Ok(<<IF pt[2] % 2 = 0 THEN 2 ELSE 3>> \o ToBytes(pt[1], KeyLen).val))

\* hmac.new(key, msg, hashlib.sha512).digest(), scaled to 2 * KeyLen bytes
hmac_sha512(key, msg) ==
    Digest(2, <<Len(key)>> \o key \o msg, 2 * KeyLen)

\* the bytes HMAC-SHA512 is fed in _bip32_derive_child
ChildData(key, index) ==
    With(ToBytes(index, IndexLen), LAMBDA ser :
        IF index >= HARDENED
        THEN IF ser.ok THEN Ok(<<0>> \o key \o ser.val) ELSE ser
        ELSE With(_privkey_to_compressed_pubkey(key), LAMBDA pub :
                 IF ~pub.ok THEN pub
                 ELSE IF ~ser.ok THEN ser
                 ELSE Ok(pub.val \o ser.val)))

_bip32_derive_child(key, chain_code, index) ==
    With(<<key, chain_code, index>>, LAMBDA a :
    With(ChildData(a[1], a[3]), LAMBDA data :
        IF ~data.ok THEN data
        ELSE With(hmac_sha512(a[2], data.val), LAMBDA I :
             With((SmallInt(Slice(I, 0, KeyLen)) + SmallInt(a[1])) % _SECP256K1_N,
                  LAMBDA child_key :
                  Ok(<<ToBytes(child_key, KeyLen).val, Slice(I, KeyLen, 2 * KeyLen)>>)))))

\* ------------------------------------------------------------------------
\* Extended keys and WIF

Ripemd160Len == 20

\* _ripemd160(data): hashlib's RIPEMD-160 or the pure-Python fallback
_ripemd160(data) == Digest(3, data, Ripemd160Len)

_hash160(data) == _ripemd160(sha256(data))

TPRV_VERSION == <<4, 53, 131, 148>>
TPUB_VERSION == <<4, 53, 135, 207>>

\* the 78-byte extended key, scaled: version(4) depth(1) fingerprint(FpLen)
\* child number(IndexLen) chain code(KeyLen) key(1 + KeyLen)
XkeyLen == 4 + 1 + FpLen + IndexLen + KeyLen + 1 + KeyLen

\* offset 13 of the source: where the chain code starts
ChainCodeOffset == 4 + 1 + FpLen + IndexLen

_encode_tprv(key, chain_code, depth, fingerprint, child_num) ==
    _b58encode_check(TPRV_VERSION \o <<depth>> \o fingerprint
                     \o ToBytes(child_num, IndexLen).val \o chain_code \o <<0>> \o key)

_encode_tpub(pubkey_bytes, chain_code, depth, fingerprint, child_num) ==
    _b58encode_check(TPUB_VERSION \o <<depth>> \o fingerprint
                     \o ToBytes(child_num, IndexLen).val \o chain_code \o pubkey_bytes)

\* _parse_xprv that does not skip the 0x00 in front of the key
_parse_xprv_no_skip(xprv_b58) ==
    With(_b58decode_check(xprv_b58), LAMBDA p :
        IF ~p.ok THEN p
        ELSE Ok([key |-> Slice(p.val, ChainCodeOffset + KeyLen,
                               ChainCodeOffset + KeyLen + KeyLen),
                 chain_code |-> Slice(p.val, ChainCodeOffset, ChainCodeOffset + KeyLen)]))

\* payload[13:45] and payload[46:78] of whatever payload passed the checksum
_parse_xprv(xprv_b58) ==
    With(_b58decode_check(xprv_b58), LAMBDA p :
        IF ~p.ok THEN p
        ELSE Ok([key |-> Slice(p.val, ChainCodeOffset + KeyLen + 1,
                               ChainCodeOffset + KeyLen + 1 + KeyLen),
                 chain_code |-> Slice(p.val, ChainCodeOffset, ChainCodeOffset + KeyLen)]))

_privkey_to_wif(key_bytes, testnet) ==
    _b58encode_check((IF testnet THEN <<239>> ELSE <<128>>) \o key_bytes \o <<1>>)

\* the loop of derive_privkey_wif from index i on: the leaf key
RECURSIVE DeriveAlong(_, _, _, _)
DeriveAlong(key, chain_code, indices, i) ==
    IF i > Len(indices) THEN Ok(key)
    ELSE With(_bip32_derive_child(key, chain_code, indices[i]), LAMBDA c :
             IF ~c.ok THEN c ELSE DeriveAlong(c.val[1], c.val[2], indices, i + 1))

derive_privkey_wif(xprv_b58, hdkeypath) ==
    With(_parse_xprv(xprv_b58), LAMBDA x :
        IF ~x.ok THEN x
        ELSE With(_parse_hdkeypath(hdkeypath), LAMBDA indices :
             IF ~indices.ok THEN indices
             ELSE With(DeriveAlong(x.val.key, x.val.chain_code, indices.val, 1), LAMBDA leaf :
                  IF ~leaf.ok THEN leaf ELSE Ok(_privkey_to_wif(leaf.val, TRUE)))))

\* ------------------------------------------------------------------------
\* BIP-39

\* the length of the word list of bip39_english
WordCount == 2048

\* BIP39_WORDS[idx]: a word is represented by its index in the list
BIP39_WORDS(idx) == IF idx \in 0..(WordCount - 1) THEN Ok(idx) ELSE Err("IndexError")

BitWeights == <<128, 64, 32, 16, 8, 4, 2, 1>>

\* the bits of data, eight to a byte, most significant first
BytesBits(data) ==
    [j \in 1..(8 * Len(data)) |->
        (data[((j - 1) \div 8) + 1] \div BitWeights[((j - 1) % 8) + 1]) % 2]

\* bin(int.from_bytes(data, "big"))[2:]: no leading zero, "0" for zero
Bin(data) ==
    With(StripZeros(BytesBits(data)), LAMBDA b : IF b = <<>> THEN <<0>> ELSE b)

\* s.zfill(width)
ZFill(s, width) ==
    With(s, LAMBDA v : IF Len(v) >= width THEN v ELSE Repeat(0, width - Len(v)) \o v)

\* int(bits, 2)
RECURSIVE BitsValue(_)
BitsValue(bits) ==
    IF bits = <<>> THEN 0 ELSE 2 * BitsValue(DropLast(bits, 1)) + bits[Len(bits)]

\* range(0, n, step) as the 0-based starts
Starts(n, step) == [j \in 1..((n + step - 1) \div step) |-> (j - 1) * step]

\* cs of _entropy_to_mnemonic taken from the low bits of h[0]
ChecksumBitsLow(h, cs_bits) == TakeLast(ZFill(Bin(<<h[1]>>), 8), cs_bits)

\* cs: bin(h[0])[2:].zfill(8)[:cs_bits]
ChecksumBits(h, cs_bits) == Slice(ZFill(Bin(<<h[1]>>), 8), 0, cs_bits)

_entropy_to_mnemonic(entropy_bytes) ==
    With(entropy_bytes, LAMBDA e :
    With([h |-> sha256(e), ent_bits |-> Len(e) * 8], LAMBDA v :
    With(ZFill(Bin(e), v.ent_bits) \o ChecksumBits(v.h, v.ent_bits \div 32),
         LAMBDA all_bits :
    With(Starts(Len(all_bits), 11), LAMBDA starts :
    With([j \in 1..Len(starts) |->
            BIP39_WORDS(BitsValue(Slice(all_bits, starts[j], starts[j] + 11)))],
         LAMBDA words :
         IF \E j \in 1..Len(words) : ~words[j].ok THEN Err("IndexError")
         ELSE Ok([j \in 1..Len(words) |-> words[j].val]))))))

\* ------------------------------------------------------------------------
\* Seed and master key

SeedLen == 64

\* str.encode("utf-8") of the characters used in passphrases
Utf8(s) == [i \in 1..Len(s) |-> IF s[i] = "a" THEN 97 ELSE 98]

\* the UTF-8 bytes of " ".join(words): two bytes stand for a word
MnemonicBytes(words) ==
    [j \in 1..(IF words = <<>> THEN 0 ELSE 3 * Len(words) - 1) |->
        CASE (j - 1) % 3 = 0 -> words[((j - 1) \div 3) + 1] \div 256
          [] (j - 1) % 3 = 1 -> words[((j - 1) \div 3) + 1] % 256
          [] OTHER -> 32]

\* hashlib.pbkdf2_hmac("sha512", password, salt, 2048)
pbkdf2_hmac_sha512(password, salt) ==
    Digest(4, <<Len(password) % 256>> \o password \o salt, SeedLen)

_mnemonic_to_seed(mnemonic, passphrase) ==
    pbkdf2_hmac_sha512(MnemonicBytes(mnemonic),
                       <<109, 110, 101, 109, 111, 110, 105, 99>> \o Utf8(passphrase))

\* b"Bitcoin seed"
BitcoinSeed == <<66, 105, 116, 99, 111, 105, 110, 32, 115, 101, 101, 100>>

_seed_to_master_key(seed_bytes) ==
    With(hmac_sha512(BitcoinSeed, seed_bytes), LAMBDA I :
         <<Slice(I, 0, KeyLen), Slice(I, KeyLen, 2 * KeyLen)>>)

\* ------------------------------------------------------------------------
\* Bech32

_BECH32_CHARSET ==
    << "q", "p", "z", "r", "y", "9", "x", "8", "g", "f", "2", "t", "v", "d", "w", "0",
       "s", "3", "j", "n", "5", "4", "k", "h", "c", "e", "6", "m", "u", "a", "7", "l" >>

\* ord(c) of the characters used in human-readable parts
Ord(c) ==
    CASE c = "a" -> 97 [] c = "b" -> 98 [] c = "c" -> 99
      [] c = "n" -> 110 [] c = "r" -> 114 [] c = "t" -> 116

\* a ^ b of two n-bit values
RECURSIVE XorBits(_, _, _)
XorBits(a, b, n) ==
    IF n = 0 THEN 0 ELSE ((a + b) % 2) + 2 * XorBits(a \div 2, b \div 2, n - 1)

\* a ^ b of two 5-bit values, as a table
Xor5 == [a \in 0..31 |-> [b \in 0..31 |-> XorBits(a, b, 5)]]

\* a ^ b of non-negative integers below 2^31, five bits at a time
Xor(a, b) ==
    With(<<a, b>>, LAMBDA p :
        Xor5[p[1] % 32][p[2] % 32]
        + 32 * Xor5[(p[1] \div 32) % 32][(p[2] \div 32) % 32]
        + 1024 * Xor5[(p[1] \div 1024) % 32][(p[2] \div 1024) % 32]
        + 32768 * Xor5[(p[1] \div 32768) % 32][(p[2] \div 32768) % 32]
        + 1048576 * Xor5[(p[1] \div 1048576) % 32][(p[2] \div 1048576) % 32]
        + 33554432 * Xor5[(p[1] \div 33554432) % 32][(p[2] \div 33554432) % 32]
        + 1073741824 * Xor5[p[1] \div 1073741824][p[2] \div 1073741824])

\* GEN of _bech32_polymod
GEN == <<996825010, 642813549, 513874426, 1027748829, 705979059>>

\* 1 << i for i in range(5)
GenBit == <<1, 2, 4, 8, 16>>

\* the inner loop of _bech32_polymod: chk ^= GEN[i] if (b >> i) & 1
RECURSIVE GenLoop(_, _, _)
GenLoop(b, i, chk) ==
    IF i > 5 THEN chk
    ELSE With(Xor(chk, IF (b \div GenBit[i]) % 2 = 1 THEN GEN[i] ELSE 0),
              LAMBDA c : GenLoop(b, i + 1, c))

\* one iteration of the outer loop: b = chk >> 25,
\* chk = ((chk & 0x1ffffff) << 5) ^ v, then the inner loop
PolymodStep(chk, v) ==
    With(<<chk \div 33554432, Xor((chk % 33554432) * 32, v)>>,
         LAMBDA s : GenLoop(s[1], 1, s[2]))

\* the iterations of the outer loop for values[lo..hi], in order: the first
\* half of them, then the second half from the accumulator the first left
RECURSIVE PolymodLoop(_, _, _, _)
PolymodLoop(values, lo, hi, chk) ==
    IF lo > hi THEN chk
    ELSE IF lo = hi THEN PolymodStep(chk, values[lo])
    ELSE With((lo + hi) \div 2, LAMBDA mid :
         With(PolymodLoop(values, lo, mid, chk),
              LAMBDA c : PolymodLoop(values, mid + 1, hi, c)))

_bech32_polymod(values) == With(values, LAMBDA v : PolymodLoop(v, 1, Len(v), 1))

_bech32_hrp_expand(hrp) ==
    [i \in 1..Len(hrp) |-> Ord(hrp[i]) \div 32] \o <<0>>
        \o [i \in 1..Len(hrp) |-> Ord(hrp[i]) % 32]

\* 1 << 5 * (5 - i) for i in range(6)
GroupWeight == <<33554432, 1048576, 32768, 1024, 32, 1>>

\* _bech32_create_checksum without the final ^ 1
_bech32_create_checksum_no_flip(hrp, data) ==
    With(_bech32_polymod(_bech32_hrp_expand(hrp) \o data \o <<0, 0, 0, 0, 0, 0>>),
         LAMBDA polymod : [i \in 1..6 |-> (polymod \div GroupWeight[i]) % 32])

_bech32_create_checksum(hrp, data) ==
    With(Xor(_bech32_polymod(_bech32_hrp_expand(hrp) \o data \o <<0, 0, 0, 0, 0, 0>>), 1),
         LAMBDA polymod : [i \in 1..6 |-> (polymod \div GroupWeight[i]) % 32])

\* data holds values in 0..31
_bech32_encode(hrp, data) ==
    With(data \o _bech32_create_checksum(hrp, data), LAMBDA combined :
         hrp \o <<"1">> \o [i \in 1..Len(combined) |-> _BECH32_CHARSET[combined[i] + 1]])

\* 1 << n
RECURSIVE Pow2(_)
Pow2(n) == IF n = 0 THEN 1 ELSE 2 * Pow2(n - 1)

\* the frombits bits of a value below 1 << frombits, most significant first
ValueBits(value, frombits) ==
    [j \in 1..frombits |-> (value \div Pow2(frombits - j)) % 2]

\* what _convertbits returns when it returns None
NoList == [none |-> TRUE]

\* acc of _convertbits is never reduced and grows by frombits bits for each
\* value: it is kept as the sequence of its bits, most significant first.
\* The while loop: ret.append((acc >> bits) & maxv) while bits >= tobits
RECURSIVE EmitLoop(_, _, _, _)
EmitLoop(acc, bits, tobits, ret) ==
    IF bits < tobits THEN [bits |-> bits, ret |-> ret]
    ELSE With(bits - tobits, LAMBDA rest :
         With(Append(ret, BitsValue(TakeLast(DropLast(acc, rest), tobits))),
              LAMBDA r : EmitLoop(acc, rest, tobits, r)))

\* one iteration of the for loop of _convertbits, from the state s of acc,
\* bits and ret
ConvertStep(s, value, frombits, tobits) ==
    With(s.acc \o ValueBits(value, frombits), LAMBDA acc2 :
    With(EmitLoop(acc2, s.bits + frombits, tobits, s.ret), LAMBDA e :
         [acc |-> acc2, bits |-> e.bits, ret |-> e.ret]))

\* the iterations of the for loop for data[lo..hi], in order: the first half
\* of them, then the second half from the state the first left
RECURSIVE ConvertLoop(_, _, _, _, _, _)
ConvertLoop(data, lo, hi, frombits, tobits, s) ==
    IF lo > hi THEN s
    ELSE IF lo = hi THEN ConvertStep(s, data[lo], frombits, tobits)
    ELSE With((lo + hi) \div 2, LAMBDA mid :
         With(ConvertLoop(data, lo, mid, frombits, tobits, s),
              LAMBDA s2 : ConvertLoop(data, mid + 1, hi, frombits, tobits, s2)))

_convertbits(data, frombits, tobits, pad) ==
    With(data, LAMBDA d :
    With(ConvertLoop(d, 1, Len(d), frombits, tobits,
                     [acc |-> <<>>, bits |-> 0, ret |-> <<>>]), LAMBDA s :
    With(BitsValue(TakeLast(s.acc \o Repeat(0, tobits - s.bits), tobits)), LAMBDA last :
         IF pad THEN (IF s.bits # 0 THEN Append(s.ret, last) ELSE s.ret)
         ELSE IF s.bits >= frombits \/ last # 0 THEN NoList
         ELSE s.ret)))

\* the human-readable part of addresses: "crnrt"
AddressHrp == <<"c", "r", "n", "r", "t">>

\* _pubkey_to_bech32_address without the witness version in front
_pubkey_to_bech32_address_no_version(pubkey_bytes, hrp) ==
    _bech32_encode(hrp, _convertbits(_hash160(pubkey_bytes), 8, 5, TRUE))

_pubkey_to_bech32_address(pubkey_bytes, hrp) ==
    _bech32_encode(hrp, <<0>> \o _convertbits(_hash160(pubkey_bytes), 8, 5, TRUE))

\* ------------------------------------------------------------------------
\* HD synthesis

\* ChainEntry with the fingerprint taken from the key of the entry itself
ChainEntryOwnFingerprint(path, key, pub, chain, depth, fingerprint, idx) ==
    [path |-> path,
     xprv |-> _encode_tprv(key, chain, depth, Slice(_hash160(pub), 0, FpLen), idx),
     xpub |-> _encode_tpub(pub, chain, depth, Slice(_hash160(pub), 0, FpLen), idx)]

\* one entry of derivation_chain
ChainEntry(path, key, pub, chain, depth, fingerprint, idx) ==
    [path |-> path,
     xprv |-> _encode_tprv(key, chain, depth, fingerprint, idx),
     xpub |-> _encode_tpub(pub, chain, depth, fingerprint, idx)]

\* the loop of step 5 of _full_hd_generate from level i + 1 on: the leaf key
\* and derivation_chain
RECURSIVE WalkChain(_, _, _, _, _, _)
WalkChain(key, chain, indices, i, path_parts, entries) ==
    IF i >= Len(indices) THEN Ok([key |-> key, entries |-> entries])
    ELSE With(_privkey_to_compressed_pubkey(key), LAMBDA parent_pub :
         IF ~parent_pub.ok THEN parent_pub
         ELSE With(_bip32_derive_child(key, chain, indices[i + 1]), LAMBDA child :
              IF ~child.ok THEN child
              ELSE With(_privkey_to_compressed_pubkey(child.val[1]), LAMBDA pub :
                   IF ~pub.ok THEN pub
                   ELSE With(Append(entries,
                                ChainEntry(Join(Slice(path_parts, 0, i + 2), "/"),
                                           child.val[1], pub.val, child.val[2], i + 1,
                                           Slice(_hash160(parent_pub.val), 0, FpLen),
                                           indices[i + 1])),
                             LAMBDA entries2 :
                             WalkChain(child.val[1], child.val[2], indices, i + 1,
                                       path_parts, entries2)))))

\* steps 4 to 7 of _full_hd_generate
GenerateFromSeed(entropy, entropy_bits, mnemonic, seed, derivation_path) ==
    With(_seed_to_master_key(seed), LAMBDA master :
    With(_privkey_to_compressed_pubkey(master[1]), LAMBDA master_pub :
        IF ~master_pub.ok THEN master_pub
        ELSE
        With([xprv |-> _encode_tprv(master[1], master[2], 0, Repeat(0, FpLen), 0),
              xpub |-> _encode_tpub(master_pub.val, master[2], 0, Repeat(0, FpLen), 0)],
             LAMBDA m :
        With(_parse_hdkeypath(derivation_path), LAMBDA indices :
            IF ~indices.ok THEN indices
            ELSE
            With(WalkChain(master[1], master[2], indices.val, 0,
                           Split(Strip(derivation_path), "/"),
                           <<[path |-> <<"m">>, xprv |-> m.xprv, xpub |-> m.xpub]>>),
                 LAMBDA walk :
                IF ~walk.ok THEN walk
                ELSE Ok([entropy |-> entropy,
                         entropy_bits |-> entropy_bits,
                         mnemonic |-> mnemonic,
                         seed |-> seed,
                         master_xprv |-> m.xprv,
                         master_xpub |-> m.xpub,
                         derivation_path |-> derivation_path,
                         derivation_chain |-> walk.val.entries,
                         private_key_wif |-> _privkey_to_wif(walk.val.key, TRUE),
                         public_key |-> _privkey_to_compressed_pubkey(walk.val.key).val,
                         address |-> _pubkey_to_bech32_address(
                                         _privkey_to_compressed_pubkey(walk.val.key).val,
                                         AddressHrp)]))))))

\* _full_hd_generate with the bytes os.urandom returned as a parameter
_full_hd_generate(entropy, entropy_bits, passphrase, derivation_path) ==
    With(_entropy_to_mnemonic(entropy), LAMBDA mnemonic :
        IF ~mnemonic.ok THEN mnemonic
        ELSE With(_mnemonic_to_seed(mnemonic.val, passphrase), LAMBDA seed :
                 GenerateFromSeed(entropy, entropy_bits, mnemonic.val, seed,
                                  derivation_path)))

\* ------------------------------------------------------------------------
\* POST /api/wallet/generate

EntropySizes == {128, 160, 192, 224, 256}
DefaultPath == <<"m", "/", "8", "4", "h", "/", "1", "h", "/", "0", "h", "/", "0", "/", "0">>

\* body.get(k, default) if body else default; a body is a function from
\* keys to values, and None (invalid JSON) and {} are both falsy
NoBody == <<>>
BodyGet(body, k, default) == IF k \in DOMAIN body THEN body[k] ELSE default

\* generate_hd_wallet with the bytes os.urandom returns as a parameter:
\* the status and the body of the response
generate_hd_wallet(body, entropy) ==
    With(BodyGet(body, "entropy_bits", 128), LAMBDA bits :
        IF bits \notin EntropySizes
        THEN [status |-> 400, error |-> "entropy_bits must be 128/160/192/224/256"]
        ELSE With(_full_hd_generate(entropy, bits, BodyGet(body, "passphrase", <<>>),
                                    BodyGet(body, "path", DefaultPath)), LAMBDA r :
                 IF r.ok THEN [status |-> 200, json |-> r.val]
                 ELSE [status |-> 500, error |-> r.err]))

\* ------------------------------------------------------------------------
\* The memoized master key

\* None, and a value that is not None
PyNone == [none |-> TRUE]
Some(v) == [none |-> FALSE, val |-> v]

\* _get_master_tprv._cache: the attribute is absent until a lookup sets it
NoCache == [set |-> FALSE]
Cached(tprv) == [set |-> TRUE, val |-> tprv]

\* [A-Za-z0-9]
Alnum ==
    { "A", "B", "C", "D", "E", "F", "G", "H", "I", "J", "K", "L", "M",
      "N", "O", "P", "Q", "R", "S", "T", "U", "V", "W", "X", "Y", "Z",
      "a", "b", "c", "d", "e", "f", "g", "h", "i", "j", "k", "l", "m",
      "n", "o", "p", "q", "r", "s", "t", "u", "v", "w", "x", "y", "z",
      "0", "1", "2", "3", "4", "5", "6", "7", "8", "9" }

\* re.match(r"^wpkh\((tprv[A-Za-z0-9]+)/", desc): the greedy run of
\* alphanumerics after "wpkh(tprv" is not empty and "/" follows it
MatchWpkhTprv(desc) ==
    With(LeadingIn(Slice(desc, 9, Len(desc)), Alnum), LAMBDA n :
         IF /\ Slice(desc, 0, 9) = <<"w", "p", "k", "h", "(", "t", "p", "r", "v">>
            /\ n >= 1
            /\ Slice(desc, 9 + n, 10 + n) = <<"/">>
         THEN [matched |-> TRUE, group1 |-> Slice(desc, 5, 9 + n)]
         ELSE [matched |-> FALSE])

\* sub in s
Contains(s, sub) ==
    \E i \in 0..(Len(s) - Len(sub)) : Slice(s, i, i + Len(sub)) = sub

\* "/0/*)"
ReceiveSuffix == <<"/", "0", "/", "*", ")">>

\* the for loop of _get_master_tprv from descriptors[i] on (i counts from
\* 1): the match of the first descriptor that passes the test
RECURSIVE FirstReceiveKey(_, _)
FirstReceiveKey(descriptors, i) ==
    IF i > Len(descriptors) THEN [matched |-> FALSE]
    ELSE With(BodyGet(descriptors[i], "desc", <<>>), LAMBDA desc :
         With(MatchWpkhTprv(desc), LAMBDA m :
              IF m.matched /\ Contains(desc, ReceiveSuffix) THEN m
              ELSE FirstReceiveKey(descriptors, i + 1)))

\* rpc_call: (result, err) for the reply of the daemon
rpc_call(reply) ==
    IF reply.error THEN [result |-> PyNone, err |-> TRUE]
    ELSE [result |-> reply.result, err |-> FALSE]

\* isinstance(result, dict), for a result that is a JSON object or null
IsDict(r) == r # PyNone

\* _get_master_tprv that looks the key up at every call
_get_master_tprv_no_memo(cache, reply) ==
    With(rpc_call(reply), LAMBDA r :
         IF r.err \/ ~IsDict(r.result) THEN [ret |-> PyNone, cache |-> cache, rpcs |-> 1]
         ELSE With(FirstReceiveKey(BodyGet(r.result, "descriptors", <<>>), 1), LAMBDA m :
                   IF m.matched
                   THEN [ret |-> Some(m.group1), cache |-> Cached(m.group1), rpcs |-> 1]
                   ELSE [ret |-> PyNone, cache |-> cache, rpcs |-> 1]))

\* _get_master_tprv from the cache it finds and the reply the daemon would
\* give: what it returns, the cache it leaves and the RPC calls it makes
_get_master_tprv(cache, reply) ==
    IF cache.set THEN [ret |-> Some(cache.val), cache |-> cache, rpcs |-> 0]
    ELSE With(rpc_call(reply), LAMBDA r :
         IF r.err \/ ~IsDict(r.result) THEN [ret |-> PyNone, cache |-> cache, rpcs |-> 1]
         ELSE With(FirstReceiveKey(BodyGet(r.result, "descriptors", <<>>), 1), LAMBDA m :
                   IF m.matched
                   THEN [ret |-> Some(m.group1), cache |-> Cached(m.group1), rpcs |-> 1]
                   ELSE [ret |-> PyNone, cache |-> cache, rpcs |-> 1]))

\* ------------------------------------------------------------------------
\* Inputs

MaxLen == 3
MaxSegs == 2

ByteVals == {0, 1, 58, 255}

RECURSIVE SeqsUpTo(_, _)
SeqsUpTo(S, n) ==
    IF n = 0 THEN {<<>>}
    ELSE LET shorter == SeqsUpTo(S, n - 1)
         IN  shorter \cup {Append(s, x) : s \in {t \in shorter : Len(t) = n - 1}, x \in S}

ByteStrings == SeqsUpTo(ByteVals, MaxLen)

\* Base58Check input: characters in and out of the alphabet
CheckChars == {"1", "2", "z", "0"}

\* what is added to one byte of an encoded payload: nothing, or a corruption
Deltas == {0, 1, 128}

\* s with its i-th element replaced by x
Replace(s, i, x) == [s EXCEPT ![i] = x]

\* path segments: well-formed, out of range and malformed
Segments ==
    { <<"0">>, <<"1">>, <<"8", "4", "h">>, <<"0", "h">>, <<"1", "'">>,
      <<"1", "2", "7", "h">>, <<"2", "5", "5">>,
      <<"1", "2", "8", "h">>, <<"2", "5", "6">>,
      <<"1", "x">>, <<>>, <<"h">>, <<"-", "1">>, <<"+", "1">>, <<"1", "_", "0">>,
      <<" ", "1">>, <<"-", "1", "h">> }

\* the segments used where a path is also walked
WalkSegments == { <<"0">>, <<"1", "h">>, <<"+", "1">>, <<"1", "x">> }

\* a path written with the leading "m", without it, and with whitespace around
PathForms(segs) ==
    { Join(<<<<"m">>>> \o segs, "/"),
      Join(segs, "/"),
      <<" ">> \o Join(<<<<"m">>>> \o segs, "/") \o <<" ">> }

Paths == UNION { PathForms(segs) : segs \in SeqsUpTo(Segments, MaxSegs) }
WalkPaths == UNION { PathForms(segs) : segs \in SeqsUpTo(WalkSegments, MaxSegs) }

\* os.urandom(n): n bytes, all v but one
EntropyVals == {0, 255}
EntropyOf(n) ==
    { [i \in 1..n |-> IF i = k THEN w ELSE v] :
          v \in EntropyVals, w \in EntropyVals \cup {1}, k \in {1, n} }

Passphrases == { <<>>, <<"a", "b">> }

\* the entropy sizes of direct calls of _full_hd_generate: the smallest and
\* the largest
WalkSizes == {128, 256}

\* 64-byte seeds
Seeds == { [i \in 1..SeedLen |-> IF i = 1 THEN w ELSE v] : v \in {0, 255}, w \in 0..255 }

\* parent keys in (0, N), chain codes and child numbers
ParentKeys == { <<k>> : k \in 1..(_SECP256K1_N - 1) }
ChainCodes == { <<7>>, <<200>> }
ChildNumbers == {0, 1, HARDENED - 1, HARDENED, 2 * HARDENED - 1}

\* master keys handed to derive_privkey_wif: serialized tprv and tpub keys,
\* Base58Check strings of other payloads, and strings that are not Base58Check
XprvPayloads ==
    LET tprv == TPRV_VERSION \o <<0>> \o Repeat(0, FpLen) \o Repeat(0, IndexLen)
                \o <<7>> \o <<0>> \o <<5>>
    IN  { tprv,
          TPUB_VERSION \o SubSeq(tprv, 5, XkeyLen - 1 - KeyLen)
              \o _privkey_to_compressed_pubkey(<<5>>).val,
          <<>>,
          SubSeq(tprv, 1, XkeyLen - 1),
          tprv \o <<9>> }

XprvInputs ==
    { _b58encode_check(p) : p \in XprvPayloads }
    \cup { _b58encode(p \o Repeat(0, CksumLen)) : p \in XprvPayloads }
    \cup { <<"0">> }

DerivePaths ==
    { <<"m">>, <<"m", "/", "0">>, <<"m", "/", "1", "h", "/", "1">>, <<"m", "/", "1", "x">> }

\* human-readable parts and 5-bit data handed to _bech32_encode
Hrps == { AddressHrp, <<"b", "c">>, <<"a">> }
FiveBitVals == {0, 1, 15, 31}
FiveBitData == SeqsUpTo(FiveBitVals, MaxLen)

\* compressed public keys: a parity prefix and an x coordinate
Pubkeys == { <<p, x>> : p \in {2, 3}, x \in 0..(_SECP256K1_P - 1) }

\* the cap on _rpc_id
MaxRpcId == 4

\* master keys as the wallet lists them, and descriptors of the wallet
KeyA == <<"t", "p", "r", "v", "A">>
KeyB == <<"t", "p", "r", "v", "B", "2">>
Wpkh(key, branch) == <<"w", "p", "k", "h", "(">> \o key \o <<"/", branch, "/", "*", ")">>
Descriptors ==
    { <<>>,
      << [desc |-> Wpkh(KeyA, "1")], [desc |-> Wpkh(KeyA, "0") \o <<"#", "x">>] >>,
      << [desc |-> <<"p", "k", "h", "(">> \o KeyA \o ReceiveSuffix],
         [active |-> TRUE],
         [desc |-> Wpkh(KeyB, "0")],
         [desc |-> Wpkh(KeyA, "0")] >>,
      << [desc |-> <<"s", "h", "(">> \o Wpkh(KeyA, "0") \o <<")">>],
         [desc |-> Wpkh(<<"t", "p", "u", "b", "A">>, "0")],
         [desc |-> Wpkh(<<"t", "p", "r", "v">>, "0")],
         [desc |-> Wpkh(KeyB, "1")] >> }

\* replies of the daemon to listdescriptors: an error, a null result, an
\* object without descriptors and objects with descriptors
DaemonReplies ==
    { [error |-> TRUE],
      [error |-> FALSE, result |-> PyNone],
      [error |-> FALSE, result |-> [wallet_name |-> <<"w">>]] }
    \cup { [error |-> FALSE, result |-> [descriptors |-> d]] : d \in Descriptors }

\* request bodies of POST /api/wallet/generate
Bodies ==
    { NoBody,
      [entropy_bits |-> 200],
      [entropy_bits |-> 256],
      [path |-> <<"m", "/", "0">>],
      [path |-> <<"m", "/", "1", "x">>],
      [path |-> <<"m", "/", "2", "5", "6">>, entropy_bits |-> 160],
      [path |-> <<"m", "/", "1", "h", "/", "0">>, passphrase |-> <<"a">>,
       entropy_bits |-> 192],
      [path |-> <<"m", "/", "8", "4", "h", "/", "1", "x", "/", "0", "h">>,
       entropy_bits |-> 224],
      [path |-> <<"m", "/", "0">>, entropy_bits |-> 129] }

\* ------------------------------------------------------------------------
\* The calls.  The server handles one call at a time: a call is made from
\* the idle state and Return ends it.

Idle == [op |-> "idle"]

\* the server starts serving after the RPC call by which main() tests the
\* connection; the daemon is not reachable yet
Init ==
    /\ call = Idle
    /\ result = Ok(<<>>)
    /\ _cache = NoCache
    /\ _rpc_id = 1
    /\ daemon = [error |-> TRUE]

B58Encode ==
    /\ call.op = "idle"
    /\ UNCHANGED wallet_vars
    /\ \E b \in ByteStrings :
          /\ call' = [op |-> "_b58encode", data |-> b]
          /\ result' = Ok(_b58encode(b))

B58EncodeCheck ==
    /\ call.op = "idle"
    /\ UNCHANGED wallet_vars
    /\ \E p \in ByteStrings :
          /\ call' = [op |-> "_b58encode_check", data |-> p]
          /\ result' = Ok(_b58encode_check(p))

\* _b58decode_check of an encoded payload with one byte of payload or
\* checksum changed (or left as it is)
B58DecodeCheckBytes ==
    /\ call.op = "idle"
    /\ UNCHANGED wallet_vars
    /\ \E p \in ByteStrings :
          LET data == p \o Checksum(p)
          IN  \E i \in 1..Len(data), d \in Deltas :
                 LET s == _b58encode(Replace(data, i, (data[i] + d) % 256))
                 IN  /\ call' = [op |-> "_b58decode_check", s |-> s]
                     /\ result' = _b58decode_check(s)

\* _b58decode_check of an arbitrary short string
B58DecodeCheckChars ==
    /\ call.op = "idle"
    /\ UNCHANGED wallet_vars
    /\ \E s \in SeqsUpTo(CheckChars, MaxLen) :
          /\ call' = [op |-> "_b58decode_check", s |-> s]
          /\ result' = _b58decode_check(s)

ParsePath ==
    /\ call.op = "idle"
    /\ UNCHANGED wallet_vars
    /\ \E p \in Paths :
          /\ call' = [op |-> "_parse_hdkeypath", path |-> p]
          /\ result' = _parse_hdkeypath(p)

SeedToMaster ==
    /\ call.op = "idle"
    /\ UNCHANGED wallet_vars
    /\ \E s \in Seeds :
          /\ call' = [op |-> "_seed_to_master_key", seed |-> s]
          /\ result' = Ok(_seed_to_master_key(s))

DeriveChild ==
    /\ call.op = "idle"
    /\ UNCHANGED wallet_vars
    /\ \E k \in ParentKeys, c \in ChainCodes, i \in ChildNumbers :
          /\ call' = [op |-> "_bip32_derive_child", key |-> k, chain_code |-> c, index |-> i]
          /\ result' = _bip32_derive_child(k, c, i)

DeriveWif ==
    /\ call.op = "idle"
    /\ UNCHANGED wallet_vars
    /\ \E x \in XprvInputs, p \in DerivePaths :
          /\ call' = [op |-> "derive_privkey_wif", xprv |-> x, path |-> p]
          /\ result' = derive_privkey_wif(x, p)

EntropyToMnemonic ==
    /\ call.op = "idle"
    /\ UNCHANGED wallet_vars
    /\ \E bits \in EntropySizes :
          \E e \in EntropyOf(bits \div 8) :
             /\ call' = [op |-> "_entropy_to_mnemonic", entropy |-> e]
             /\ result' = _entropy_to_mnemonic(e)

FullHdGenerate ==
    /\ call.op = "idle"
    /\ UNCHANGED wallet_vars
    /\ \E bits \in WalkSizes, pass \in Passphrases, p \in WalkPaths :
          \E e \in { Repeat(v, bits \div 8) : v \in EntropyVals } :
             /\ call' = [op |-> "_full_hd_generate", entropy_bits |-> bits,
                         passphrase |-> pass, path |-> p]
             /\ result' = _full_hd_generate(e, bits, pass, p)

GenerateHdWallet ==
    /\ call.op = "idle"
    /\ UNCHANGED wallet_vars
    /\ \E body \in Bodies :
          LET bits == BodyGet(body, "entropy_bits", 128)
          IN  \E e \in (IF bits \in EntropySizes THEN EntropyOf(bits \div 8) ELSE {<<>>}) :
                 /\ call' = [op |-> "generate_hd_wallet", body |-> body]
                 /\ result' = generate_hd_wallet(body, e)

Bech32Encode ==
    /\ call.op = "idle"
    /\ UNCHANGED wallet_vars
    /\ \E hrp \in Hrps, data \in FiveBitData :
          /\ call' = [op |-> "_bech32_encode", hrp |-> hrp, data |-> data]
          /\ result' = Ok(_bech32_encode(hrp, data))

PubkeyToAddress ==
    /\ call.op = "idle"
    /\ UNCHANGED wallet_vars
    /\ \E pub \in Pubkeys :
          /\ call' = [op |-> "_pubkey_to_bech32_address", pubkey |-> pub]
          /\ result' = Ok(_pubkey_to_bech32_address(pub, AddressHrp))

\* a call of _get_master_tprv; the lookup makes one more RPC call
GetMasterTprv ==
    /\ call.op = "idle"
    /\ _cache.set \/ _rpc_id < MaxRpcId
    /\ LET r == _get_master_tprv(_cache, daemon)
       IN  /\ call' = [op |-> "_get_master_tprv"]
           /\ result' = Ok(r.ret)
           /\ _cache' = r.cache
           /\ _rpc_id' = _rpc_id + r.rpcs
    /\ UNCHANGED daemon

\* between two calls the daemon stops, starts, or its wallet changes
WalletChanges ==
    /\ call.op = "idle"
    /\ \E reply \in DaemonReplies \ {daemon} : daemon' = reply
    /\ UNCHANGED <<call, result, _cache, _rpc_id>>

\* the call returns and the server is ready for the next one
Return ==
    /\ call.op # "idle"
    /\ call' = Idle
    /\ result' = Ok(<<>>)
    /\ UNCHANGED wallet_vars

NextB58 ==
    \/ B58Encode
    \/ B58EncodeCheck
    \/ B58DecodeCheckBytes
    \/ B58DecodeCheckChars
    \/ Return

NextPath == ParsePath \/ Return

NextKeys ==
    \/ SeedToMaster
    \/ DeriveChild
    \/ DeriveWif
    \/ Return

NextGen ==
    \/ EntropyToMnemonic
    \/ FullHdGenerate
    \/ GenerateHdWallet
    \/ Return

NextBech32 ==
    \/ Bech32Encode
    \/ PubkeyToAddress
    \/ Return

NextCache ==
    \/ GetMasterTprv
    \/ WalletChanges
    \/ Return

Next == NextB58 \/ NextPath \/ NextKeys \/ NextGen \/ NextBech32 \/ NextCache

\* the calls by layer, and all of them
SpecB58 == Init /\ [][NextB58]_vars
SpecPath == Init /\ [][NextPath]_vars
SpecKeys == Init /\ [][NextKeys]_vars
SpecGen == Init /\ [][NextGen]_vars
SpecBech32 == Init /\ [][NextBech32]_vars
SpecCache == Init /\ [][NextCache]_vars
Spec == Init /\ [][Next]_vars

\* ------------------------------------------------------------------------
\* Properties

\* the path a generate call walks
WalkedPath ==
    IF call.op = "generate_hd_wallet" THEN BodyGet(call.body, "path", DefaultPath)
    ELSE call.path

\* a wallet was generated: by _full_hd_generate or by the endpoint
Generated ==
    \/ call.op = "_full_hd_generate" /\ result.ok
    \/ call.op = "generate_hd_wallet" /\ result.status = 200

Wallet == IF call.op = "generate_hd_wallet" THEN result.json ELSE result.val

\* C1: whenever _full_hd_generate returns a wallet, derive_privkey_wif of
\* its master_xprv and the requested path returns its private_key_wif.
C1_RederivationAgrees ==
    Generated => derive_privkey_wif(Wallet.master_xprv, WalkedPath) = Ok(Wallet.private_key_wif)

C1_Witness ==
    /\ call.op = "_full_hd_generate"
    /\ result.ok
    /\ call.path = <<"m", "/", "1", "h", "/", "0">>
    /\ Len(result.val.derivation_chain) = 3

\* C2: decoding the Base58 encoding of a byte string gives the byte string
\* back, and the encoding has as many leading "1" as the bytes have leading
\* zero bytes.
C2_Base58RoundTrip ==
    call.op = "_b58encode" =>
        /\ _b58decode(result.val) = Ok(call.data)
        /\ CountLeading(result.val, "1") = CountLeading(call.data, 0)

\* leading zero bytes before a value whose encoding holds another "1"
C2_Witness ==
    /\ call.op = "_b58encode"
    /\ call.data = <<0, 0, 58>>
    /\ result.val = <<"1", "1", "2", "1">>

\* the segments of a path after the optional leading "m"
PathSegments(path) ==
    With(Split(Strip(path), "/"),
         LAMBDA parts : IF parts[1] = <<"m">> THEN Tail(parts) ELSE parts)

\* p matches \d+[h']?
MatchesSegment(p) ==
    With(IF EndsWith(p, "h") \/ EndsWith(p, "'") THEN DropLast(p, 1) ELSE p, LAMBDA digits :
         digits # <<>> /\ \A i \in 1..Len(digits) : IsDigit(digits[i]))

\* C3: _parse_hdkeypath returns indices only if every segment after the
\* optional leading "m" matches \d+[h']?.
C3_RejectsMalformedSegments ==
    (call.op = "_parse_hdkeypath" /\ result.ok) =>
        With(PathSegments(call.path),
             LAMBDA segs : \A i \in 1..Len(segs) : MatchesSegment(segs[i]))

\* the version of an extended-key payload
VersionOf(payload) == Slice(payload, 0, 4)

\* C4: derive_privkey_wif returns a WIF only if the Base58Check payload of
\* the master key is a full-length extended key with the tprv version.
C4_RejectsForeignMasterKey ==
    (call.op = "derive_privkey_wif" /\ result.ok) =>
        With(_b58decode_check(call.xprv), LAMBDA p :
             p.ok /\ Len(p.val) = XkeyLen /\ VersionOf(p.val) = TPRV_VERSION)

\* C5: the master key _seed_to_master_key returns is a scalar in (0, N).
C5_MasterKeyInRange ==
    call.op = "_seed_to_master_key" =>
        (0 < SmallInt(result.val[1]) /\ SmallInt(result.val[1]) < _SECP256K1_N)

\* I_L of the derivation the call made
CallIL ==
    SmallInt(Slice(hmac_sha512(call.chain_code, ChildData(call.key, call.index).val),
                   0, KeyLen))

\* C6: a child key that _bip32_derive_child returns is a scalar in (0, N),
\* and none is returned when I_L >= N or I_L + k_par = 0 mod N.
C6_ChildKeyValid ==
    (call.op = "_bip32_derive_child" /\ result.ok) =>
        /\ 0 < SmallInt(result.val[1])
        /\ SmallInt(result.val[1]) < _SECP256K1_N
        /\ CallIL < _SECP256K1_N
        /\ (CallIL + SmallInt(call.key)) % _SECP256K1_N # 0

\* C7: every index _parse_hdkeypath returns fits the unsigned index width.
C7_IndicesInRange ==
    (call.op = "_parse_hdkeypath" /\ result.ok) =>
        \A i \in 1..Len(result.val) : 0 <= result.val[i] /\ result.val[i] < 2 * HARDENED

\* C8: _b58decode_check returns a payload exactly when the decoded bytes are
\* that payload followed by its checksum, and raises otherwise; it returns p
\* for the encoding of every payload p.
C8_ChecksumVerified ==
    /\ call.op = "_b58decode_check" =>
          With(_b58decode(call.s), LAMBDA d :
               /\ result.ok => (d.ok /\ d.val = result.val \o Checksum(result.val))
               /\ (d.ok /\ Len(d.val) >= CksumLen
                        /\ d.val = DropLast(d.val, CksumLen)
                                   \o Checksum(DropLast(d.val, CksumLen)))
                  => result = Ok(DropLast(d.val, CksumLen)))
    /\ call.op = "_b58encode_check" => _b58decode_check(result.val) = Ok(call.data)

\* a string that decodes to a payload and a wrong checksum is rejected
C8_Witness ==
    /\ call.op = "_b58decode_check"
    /\ ~result.ok
    /\ _b58decode(call.s).ok
    /\ Len(_b58decode(call.s).val) = 3 + CksumLen

\* C9: a request with supported entropy_bits and a path the parser rejects
\* is answered with status 400.
C9_PathErrorIs400 ==
    (/\ call.op = "generate_hd_wallet"
     /\ BodyGet(call.body, "entropy_bits", 128) \in EntropySizes
     /\ ~_parse_hdkeypath(WalkedPath).ok) => result.status = 400

\* the bits a mnemonic encodes: the entropy, then the first ENT/32 bits of
\* the first byte of its SHA-256
MnemonicBits(e) ==
    With(BytesBits(<<sha256(e)[1]>>), LAMBDA hbits :
         [k \in 1..(8 * Len(e) + (8 * Len(e)) \div 32) |->
             IF k <= 8 * Len(e)
             THEN (e[((k - 1) \div 8) + 1] \div BitWeights[((k - 1) % 8) + 1]) % 2
             ELSE hbits[k - 8 * Len(e)]])

\* the weight of bit t, counted from the most significant, of an 11-bit word index
WordBitWeights == <<1024, 512, 256, 128, 64, 32, 16, 8, 4, 2, 1>>

\* the words are the 11-bit groups of bits, in order and with no bit left over
EncodesBits(words, bits) ==
    /\ Len(bits) = 11 * Len(words)
    /\ \A j \in 1..Len(words) :
          /\ words[j] \in 0..(WordCount - 1)
          /\ \A t \in 1..11 : (words[j] \div WordBitWeights[t]) % 2 = bits[11 * (j - 1) + t]

\* the number of words for each entropy size
WordsFor == [b \in EntropySizes |->
                CASE b = 128 -> 12 [] b = 160 -> 15 [] b = 192 -> 18
                  [] b = 224 -> 21 [] b = 256 -> 24]

\* C10: the mnemonic of 128, 160, 192, 224 or 256 bits of entropy has 12, 15,
\* 18, 21 or 24 words, every word index is in 0..2047, and the words are the
\* 11-bit groups of the entropy followed by the first ENT/32 bits of its
\* SHA-256, with no bit left over.
C10_MnemonicEncodesEntropy ==
    /\ call.op = "_entropy_to_mnemonic" =>
          /\ result.ok
          /\ Len(result.val) = WordsFor[8 * Len(call.entropy)]
          /\ EncodesBits(result.val, MnemonicBits(call.entropy))
    /\ Generated =>
          /\ Len(Wallet.mnemonic) = WordsFor[Wallet.entropy_bits]
          /\ EncodesBits(Wallet.mnemonic, MnemonicBits(Wallet.entropy))

\* 256 bits of entropy: the last word ends with the whole checksum byte
C10_Witness ==
    /\ call.op = "_entropy_to_mnemonic"
    /\ Len(call.entropy) = 32
    /\ result.ok
    /\ Len(result.val) = 24
    /\ result.val[24] % 256 = sha256(call.entropy)[1]

\* a segment ends in a hardened marker
Marked(p) == EndsWith(p, "h") \/ EndsWith(p, "'")

\* the number written by decimal digits
RECURSIVE NumberOf(_)
NumberOf(digits) ==
    IF digits = <<>> THEN 0
    ELSE 10 * NumberOf(SubSeq(digits, 1, Len(digits) - 1))
         + (CHOOSE v \in 0..9 : ToString(v) = digits[Len(digits)])

\* the index a well-formed segment stands for
ExpectedIndex(p) ==
    IF Marked(p) THEN NumberOf(SubSeq(p, 1, Len(p) - 1)) + HARDENED ELSE NumberOf(p)

\* the path with the markers h and ' exchanged
SwapMarkers(path) ==
    [i \in 1..Len(path) |->
        IF path[i] = "h" THEN "'" ELSE IF path[i] = "'" THEN "h" ELSE path[i]]

\* C12: for a path whose segments all match \d+[h']?, _parse_hdkeypath
\* returns one index for each segment, in path order: the number of the
\* segment, plus the hardened offset exactly when the segment ends in a
\* marker; exchanging the markers h and ' gives the same list, and "m"
\* alone gives the empty list.
C12_WellFormedPathIndices ==
    /\ call.op = "_parse_hdkeypath" =>
          With(PathSegments(call.path), LAMBDA segs :
               (\A i \in 1..Len(segs) : MatchesSegment(segs[i])) =>
                   /\ result.ok
                   /\ Len(result.val) = Len(segs)
                   /\ \A i \in 1..Len(segs) : result.val[i] = ExpectedIndex(segs[i])
                   /\ _parse_hdkeypath(SwapMarkers(call.path)) = result)
    /\ (call.op = "_parse_hdkeypath" /\ call.path = <<"m">>) => result = Ok(<<>>)

\* a hardened segment written with ' follows one written with h
C12_Witness ==
    /\ call.op = "_parse_hdkeypath"
    /\ call.path = <<"m", "/", "8", "4", "h", "/", "1", "'">>
    /\ result = Ok(<<84 + HARDENED, 1 + HARDENED>>)

\* the fields of a serialized extended key
XDepth(payload) == payload[5]
XFingerprint(payload) == Slice(payload, 5, 5 + FpLen)
XChildNumber(payload) == Slice(payload, 5 + FpLen, ChainCodeOffset)
XChainCode(payload) == Slice(payload, ChainCodeOffset, ChainCodeOffset + KeyLen)
XKeyData(payload) == Slice(payload, ChainCodeOffset + KeyLen, XkeyLen)

\* the decoded payloads of the entries of a derivation_chain
ChainPayloads(chain) ==
    [d \in 1..Len(chain) |->
        [prv |-> _b58decode_check(chain[d].xprv).val,
         pub |-> _b58decode_check(chain[d].xpub).val]]

\* the compressed public key of the private key an xprv payload holds
PubOfPrv(payload) == _privkey_to_compressed_pubkey(Tail(XKeyData(payload))).val

\* entry d of a chain (d = 0 is the master, x[1]) carries depth d, the d-th
\* index and the fingerprint of the key of entry d - 1
EntryFieldsRight(x, indices, d) ==
    IF d = 0
    THEN /\ XDepth(x[1].prv) = 0
         /\ XFingerprint(x[1].prv) = Repeat(0, FpLen)
         /\ XChildNumber(x[1].prv) = Repeat(0, IndexLen)
    ELSE /\ XDepth(x[d + 1].prv) = d
         /\ XChildNumber(x[d + 1].prv) = ToBytes(indices[d], IndexLen).val
         /\ XFingerprint(x[d + 1].prv) = Slice(_hash160(PubOfPrv(x[d].prv)), 0, FpLen)

\* the xprv and the xpub of an entry are a tprv and a tpub of the same key
\* with the same depth, fingerprint, child number and chain code
EntryPairAgrees(e) ==
    /\ Len(e.prv) = XkeyLen
    /\ Len(e.pub) = XkeyLen
    /\ VersionOf(e.prv) = TPRV_VERSION
    /\ VersionOf(e.pub) = TPUB_VERSION
    /\ Slice(e.prv, 4, ChainCodeOffset + KeyLen) = Slice(e.pub, 4, ChainCodeOffset + KeyLen)
    /\ XKeyData(e.prv)[1] = 0
    /\ XKeyData(e.pub) = PubOfPrv(e.prv)

\* C13: in derivation_chain the master entry is serialized with depth 0,
\* fingerprint zero and child number 0, and entry d >= 1 with depth d, the
\* d-th parsed index and the first bytes of HASH160 of the public key of the
\* key of entry d - 1; the xprv and xpub of an entry carry the same depth,
\* fingerprint, child number and chain code.
C13_ChainSerialization ==
    Generated =>
        With(ChainPayloads(Wallet.derivation_chain), LAMBDA x :
        With(_parse_hdkeypath(WalkedPath).val, LAMBDA indices :
             /\ \A d \in 0..(Len(x) - 1) : EntryFieldsRight(x, indices, d)
             /\ \A d \in 1..Len(x) : EntryPairAgrees(x[d])))

\* a grandchild whose parent's fingerprint differs from its own
C13_Witness ==
    /\ call.op = "_full_hd_generate"
    /\ result.ok
    /\ Len(result.val.derivation_chain) = 3
    /\ With(ChainPayloads(result.val.derivation_chain), LAMBDA x :
            /\ XDepth(x[3].prv) = 2
            /\ XFingerprint(x[3].prv) # Slice(_hash160(PubOfPrv(x[3].prv)), 0, FpLen)
            /\ XFingerprint(x[3].prv) # XFingerprint(x[2].prv))

\* C14: derivation_chain has one entry more than the path has segments, and
\* entry d is labelled "m" followed by the first d segments of the path.
C14_ChainLabels ==
    Generated =>
        With(PathSegments(WalkedPath), LAMBDA segs :
             /\ Len(Wallet.derivation_chain) = Len(segs) + 1
             /\ \A d \in 0..Len(segs) :
                   Wallet.derivation_chain[d + 1].path
                       = Join(<<<<"m">>>> \o SubSeq(segs, 1, d), "/"))

\* the 5-bit values the characters of s stand for (32 for a character that
\* is not in the charset)
CharsetValues(s) ==
    [i \in 1..Len(s) |->
        IF \E v \in 0..31 : _BECH32_CHARSET[v + 1] = s[i]
        THEN CHOOSE v \in 0..31 : _BECH32_CHARSET[v + 1] = s[i]
        ELSE 32]

\* the accumulator of the polymod after each of the values
RECURSIVE PolymodAccs(_, _, _)
PolymodAccs(values, i, accs) ==
    IF i > Len(values) THEN accs
    ELSE With(Append(accs, PolymodStep(accs[Len(accs)], values[i])),
              LAMBDA a : PolymodAccs(values, i + 1, a))

\* C15: a string built by _bech32_encode is the HRP, "1" and the characters
\* of the data followed by six checksum values in 0..31; the polymod of the
\* expanded HRP, the data and the checksum is 1, and the accumulator of that
\* polymod stays below 2^30.
C15_Bech32ChecksumValid ==
    call.op = "_bech32_encode" =>
        With(CharsetValues(Slice(result.val, Len(call.hrp) + 1, Len(result.val))),
             LAMBDA values :
        With(PolymodAccs(_bech32_hrp_expand(call.hrp) \o values, 1, <<1>>), LAMBDA accs :
             /\ Slice(result.val, 0, Len(call.hrp) + 1) = call.hrp \o <<"1">>
             /\ Len(values) = Len(call.data) + 6
             /\ Slice(values, 0, Len(call.data)) = call.data
             /\ TakeLast(values, 6) = _bech32_create_checksum(call.hrp, call.data)
             /\ \A i \in 1..Len(values) : values[i] \in 0..31
             /\ _bech32_polymod(_bech32_hrp_expand(call.hrp) \o values) = 1
             /\ accs[Len(accs)] = 1
             /\ \A i \in 1..Len(accs) : accs[i] \in 0..1073741823))

\* data of the greatest values under the HRP of addresses
C15_Witness ==
    /\ call.op = "_bech32_encode"
    /\ call.hrp = AddressHrp
    /\ call.data = <<31, 31, 31>>
    /\ Len(result.val) = 5 + 1 + 3 + 6

\* the HASH160 of a public key, five bits to a value
HashGroups(pub) ==
    With(BytesBits(_hash160(pub)), LAMBDA bits :
         [j \in 1..(Len(bits) \div 5) |->
             16 * bits[5 * j - 4] + 8 * bits[5 * j - 3] + 4 * bits[5 * j - 2]
             + 2 * bits[5 * j - 1] + bits[5 * j]])

\* C11: the address of a compressed public key is "crnrt", "1", "q", the 32
\* characters of the 5-bit groups of its HASH160 and 6 checksum characters:
\* it starts with "crnrt1q", is 42 to 62 characters long and each of its
\* values is in 0..31.
C11_AddressShape ==
    call.op = "_pubkey_to_bech32_address" =>
        With(CharsetValues(Slice(result.val, 6, Len(result.val))), LAMBDA values :
             /\ Slice(result.val, 0, 7) = <<"c", "r", "n", "r", "t", "1", "q">>
             /\ Len(result.val) \in 42..62
             /\ Len(values) = 1 + 32 + 6
             /\ \A i \in 1..Len(values) : values[i] \in 0..31
             /\ values[1] = 0
             /\ Slice(values, 1, 33) = HashGroups(call.pubkey)
             /\ _bech32_polymod(_bech32_hrp_expand(AddressHrp) \o values) = 1)

\* a key whose HASH160 neither starts nor ends with a zero group
C11_Witness ==
    /\ call.op = "_pubkey_to_bech32_address"
    /\ Len(result.val) = 45
    /\ HashGroups(call.pubkey)[1] # 0
    /\ HashGroups(call.pubkey)[32] # 0

\* desc is a wpkh(tprv.../0/*) descriptor of the key
IsReceiveDescriptorOf(desc, key) ==
    /\ Len(key) > 4
    /\ SubSeq(key, 1, 4) = <<"t", "p", "r", "v">>
    /\ \A i \in 1..Len(key) : key[i] \in Alnum
    /\ Len(desc) > 5 + Len(key)
    /\ SubSeq(desc, 1, 5 + Len(key) + 1) = <<"w", "p", "k", "h", "(">> \o key \o <<"/">>
    /\ \E i \in 1..(Len(desc) - 4) : SubSeq(desc, i, i + 4) = <<"/", "0", "/", "*", ")">>

\* the daemon answers with a descriptor list that holds a receive
\* descriptor of the key
DaemonOffers(key) ==
    /\ ~daemon.error
    /\ daemon.result # PyNone
    /\ "descriptors" \in DOMAIN daemon.result
    /\ \E i \in 1..Len(daemon.result.descriptors) :
          /\ "desc" \in DOMAIN daemon.result.descriptors[i]
          /\ IsReceiveDescriptorOf(daemon.result.descriptors[i].desc, key)

\* the daemon answers with a receive descriptor of some key
DaemonOffersAny == \E key \in {KeyA, KeyB} : DaemonOffers(key)

\* this step is a call of _get_master_tprv
CallsGetMasterTprv == call.op = "idle" /\ call'.op = "_get_master_tprv"

\* C16: the cache of _get_master_tprv is set only by a call whose lookup
\* found a wpkh(tprv.../0/*) descriptor, and to the key of one; once set it
\* never changes, and every later call returns it without an RPC call,
\* whatever the daemon would answer; a call that finds the cache unset makes
\* an RPC call, and if that fails or finds no such descriptor it returns
\* None and leaves the cache unset.
C16_MasterKeyMemoized ==
    [][ /\ (~_cache.set /\ _cache'.set) =>
              /\ CallsGetMasterTprv
              /\ DaemonOffers(_cache'.val)
              /\ result' = Ok(Some(_cache'.val))
        /\ _cache.set => _cache' = _cache
        /\ (_cache.set /\ CallsGetMasterTprv) =>
              /\ result' = Ok(Some(_cache.val))
              /\ _rpc_id' = _rpc_id
        /\ (~_cache.set /\ CallsGetMasterTprv) => _rpc_id' = _rpc_id + 1
        /\ (~_cache.set /\ CallsGetMasterTprv /\ ~DaemonOffersAny) =>
              /\ result' = Ok(PyNone)
              /\ ~_cache'.set
      ]_vars

\* a call answered from the cache with the key of a wallet that the daemon
\* no longer offers: the daemon now offers another key first, or nothing
C16_Witness ==
    /\ call.op = "_get_master_tprv"
    /\ _cache = Cached(KeyA)
    /\ result = Ok(Some(KeyA))
    /\ ~DaemonOffers(KeyA)
    /\ _rpc_id = 2

====
